---- MODULE Spec2Model ----
(***************************************************************************)
(* Conway's Game of Life on a finite, clamped rectangular grid             *)
(* (src/src/main.rs).  A Board owns a Grid<bool>: a flat row-major vector  *)
(* with a row count and a column count.  The model keeps that layout, so   *)
(* that index arithmetic, the clamped neighbour windows and the rebuild of *)
(* the grid from a flat vector in advance are what the code does.          *)
(***************************************************************************)
EXTENDS Integers, Sequences, FiniteSets, TLC

\* Bounds of the model: largest row count, column count and number of
\* cells (rows * cols) handed to the constructors, and the number of
\* generations a board is advanced.
MaxRows == 3
MaxCols == 3
MaxCells == 9
MaxGen == 2

VARIABLES grid, pc, last, prev, start, args, gen, out, collected

vars == <<grid, pc, last, prev, start, args, gen, out, collected>>

-----------------------------------------------------------------------------
(* The dense-grid container as the Board uses it.                          *)

\* Board { grid } before any constructor ran.
NoGrid == [data |-> <<>>, rows |-> 0, cols |-> 0]

\* Grid::init(rows, cols, value)
GridInit(rows, cols, value) ==
    [data |-> [i \in 1..(rows * cols) |-> value], rows |-> rows, cols |-> cols]

\* Grid::from_vec(vec, cols): the row count is derived from the length.
GridFromVec(vec, cols) ==
    [data |-> vec, rows |-> Len(vec) \div cols, cols |-> cols]

\* grid[r][c] is in range: row slice r exists and c indexes into it.
InRange(g, r, c) ==
    /\ r >= 0 /\ c >= 0
    /\ (r * g.cols) + g.cols <= Len(g.data)
    /\ c < g.cols

\* grid[r][c]
Cell(g, r, c) == g.data[(r * g.cols) + c + 1]

\* (0..rows).cartesian_product(0..cols), as the k-th position (k from 0).
RowOf(g, k) == k \div g.cols
ColOf(g, k) == k % g.cols
Positions(g) == 0..((g.rows * g.cols) - 1)

-----------------------------------------------------------------------------
(* Board::count_live_neighbors                                             *)

valid_rows_exclusive(g, row) ==
    IF row = 0 THEN 0..1
    ELSE IF row = g.rows - 1 THEN (row - 1)..(row - 1)
    ELSE (row - 1)..(row + 1)

valid_rows_unclamped(g, row) ==
    IF row = 0 THEN 0..1
    ELSE (row - 1)..(row + 1)

valid_rows(g, row) ==
    IF row = 0 THEN 0..1
    ELSE IF row = g.rows - 1 THEN (row - 1)..row
    ELSE (row - 1)..(row + 1)

valid_cols_exclusive(g, col) ==
    IF col = 0 THEN 0..1
    ELSE IF col = g.cols - 1 THEN (col - 1)..(col - 1)
    ELSE (col - 1)..(col + 1)

valid_cols(g, col) ==
    IF col = 0 THEN 0..1
    ELSE IF col = g.cols - 1 THEN (col - 1)..col
    ELSE (col - 1)..(col + 1)

\* valid_rows.cartesian_product(valid_cols).filter(|i| i != &(row, col))
neighbor_indices(g, row, col) ==
    {i \in valid_rows(g, row) \X valid_cols(g, col) : i # <<row, col>>}

\* Some grid[r][c] of the count indexes out of range: the call panics.
count_panics(g, row, col) ==
    \E i \in neighbor_indices(g, row, col) : ~InRange(g, i[1], i[2])

count_live_neighbors_self(g, row, col) ==
    Cardinality({i \in valid_rows(g, row) \X valid_cols(g, col) :
                    Cell(g, i[1], i[2])})

count_live_neighbors(g, row, col) ==
    Cardinality({i \in neighbor_indices(g, row, col) : Cell(g, i[1], i[2])})

-----------------------------------------------------------------------------
(* Board::advance                                                          *)

new_cell_no_birth(g, row, col) ==
    LET n == count_live_neighbors(g, row, col) IN
    IF n \in 0..1 THEN FALSE
    ELSE IF n = 2 THEN Cell(g, row, col)
    ELSE IF n = 3 THEN Cell(g, row, col)
    ELSE FALSE

new_cell_crowded(g, row, col) ==
    LET n == count_live_neighbors(g, row, col) IN
    IF n \in 0..1 THEN FALSE
    ELSE IF n = 2 THEN Cell(g, row, col)
    ELSE IF n \in 3..4 THEN TRUE
    ELSE FALSE

new_cell_lonely(g, row, col) ==
    LET n == count_live_neighbors(g, row, col) IN
    IF n \in 0..2 THEN FALSE
    ELSE IF n = 3 THEN TRUE
    ELSE FALSE

new_cell_two_born(g, row, col) ==
    LET n == count_live_neighbors(g, row, col) IN
    IF n \in 0..1 THEN FALSE
    ELSE IF n \in 2..3 THEN TRUE
    ELSE FALSE

\* The match on the neighbour count.
new_cell(g, row, col) ==
    LET n == count_live_neighbors(g, row, col) IN
    IF n \in 0..1 THEN FALSE
    ELSE IF n = 2 THEN Cell(g, row, col)
    ELSE IF n = 3 THEN TRUE
    ELSE FALSE

\* new_state: one new cell per position, in row-major order.
new_state(g) ==
    [k \in 1..(g.rows * g.cols) |-> new_cell(g, RowOf(g, k - 1), ColOf(g, k - 1))]

\* advance panics when one of its neighbour counts does.
advance_panics(g) ==
    \E k \in Positions(g) : count_panics(g, RowOf(g, k), ColOf(g, k))

advance_by_rows(g) == GridFromVec(new_state(g), g.rows)

\* self.grid = Grid::from_vec(new_state, cols)
advance(g) == GridFromVec(new_state(g), g.cols)

-----------------------------------------------------------------------------
(* impl Display for Board                                                  *)

as_u32_bool(b) == IF b THEN "true" ELSE "false"

\* self.grid[row][col] as u32, written with "{}"
as_u32(b) == IF b THEN "1" ELSE "0"

RECURSIVE write_cells(_, _)
\* The text written for the first k positions.
write_cells(g, k) ==
    IF k = 0 THEN <<>>
    ELSE write_cells(g, k - 1)
           \o <<as_u32(Cell(g, RowOf(g, k - 1), ColOf(g, k - 1)))>>
           \o (IF ColOf(g, k - 1) = g.cols - 1 THEN <<"\n">> ELSE <<>>)

fmt(g) == write_cells(g, g.rows * g.cols)

-----------------------------------------------------------------------------
(* Constructors                                                            *)

dead_swapped(rows, cols) == GridInit(cols, rows, FALSE)

\* Board::dead
dead(rows, cols) == GridInit(rows, cols, FALSE)

\* Board::random: Grid::new(rows, cols) filled by one draw per cell.
random(rows, cols, draws) ==
    [data |-> [i \in 1..(rows * cols) |-> draws[i]], rows |-> rows, cols |-> cols]

\* tests::create_board_x_by_x: as_bool on every element, then from_vec.
create_board_x_by_x(vec, x) ==
    GridFromVec([i \in 1..Len(vec) |-> vec[i] # 0], x)

\* The literal boards of the tests.
AllDead3 == <<[i \in 1..9 |-> 0], 3>>

Dead3Neighbors ==
    << <<0, 0, 1,
         0, 1, 1,
         0, 0, 0>>, 3>>

Alive4Neighbors ==
    << <<0, 1, 1,
         0, 1, 1,
         0, 0, 1>>, 3>>

Block ==
    << <<0, 0, 0, 0,
         0, 1, 1, 0,
         0, 1, 1, 0,
         0, 0, 0, 0>>, 4>>

Beehive ==
    << <<0, 0, 0, 0, 0, 0,
         0, 0, 1, 1, 0, 0,
         0, 1, 0, 0, 1, 0,
         0, 0, 1, 1, 0, 0,
         0, 0, 0, 0, 0, 0,
         0, 0, 0, 0, 0, 0>>, 6>>

Boat ==
    << <<0, 0, 0, 0, 0,
         0, 0, 1, 0, 0,
         0, 1, 0, 1, 0,
         0, 1, 1, 0, 0,
         0, 0, 0, 0, 0>>, 5>>

Blinker ==
    << <<0, 0, 0, 0, 0,
         0, 0, 1, 0, 0,
         0, 0, 1, 0, 0,
         0, 0, 1, 0, 0,
         0, 0, 0, 0, 0>>, 5>>

Toad ==
    << <<0, 0, 0, 0, 0, 0,
         0, 0, 0, 0, 0, 0,
         0, 0, 1, 1, 1, 0,
         0, 1, 1, 1, 0, 0,
         0, 0, 0, 0, 0, 0,
         0, 0, 0, 0, 0, 0>>, 6>>

TestBoards ==
    {AllDead3, Dead3Neighbors, Alive4Neighbors, Block, Beehive, Boat, Blinker, Toad}

-----------------------------------------------------------------------------
(* The program: construct a board, then advance and render it.             *)

Init ==
    /\ grid = NoGrid
    /\ pc = "new"
    /\ last = "none"
    /\ prev = NoGrid
    /\ start = NoGrid
    /\ args = <<0, 0>>
    /\ gen = 0
    /\ out = <<>>
    /\ collected = <<>>

Dead ==
    \E rows \in 1..MaxRows, cols \in 1..MaxCols :
        /\ pc = "new"
        /\ rows * cols <= MaxCells
        /\ grid' = dead(rows, cols)
        /\ start' = grid'
        /\ prev' = grid
        /\ args' = <<rows, cols>>
        /\ last' = "dead"
        /\ pc' = "ready"
        /\ UNCHANGED <<gen, out, collected>>

Random ==
    \E rows \in 1..MaxRows :
      \E cols \in {c \in 1..MaxCols : rows * c <= MaxCells} :
        \E draws \in [1..(rows * cols) -> BOOLEAN] :
            /\ pc = "new"
            /\ grid' = random(rows, cols, draws)
            /\ start' = grid'
            /\ prev' = grid
            /\ args' = <<rows, cols>>
            /\ last' = "random"
            /\ pc' = "ready"
            /\ UNCHANGED <<gen, out, collected>>

Create ==
    \E t \in TestBoards :
        /\ pc = "new"
        /\ grid' = create_board_x_by_x(t[1], t[2])
        /\ start' = grid'
        /\ prev' = grid
        /\ args' = <<Len(t[1]) \div t[2], t[2]>>
        /\ last' = "create"
        /\ pc' = "ready"
        /\ UNCHANGED <<gen, out, collected>>

Advance ==
    /\ pc = "ready"
    /\ gen < MaxGen
    /\ prev' = grid
    /\ last' = "advance"
    /\ IF advance_panics(grid)
       THEN pc' = "panicked" /\ UNCHANGED <<grid, gen>>
       ELSE grid' = advance(grid) /\ gen' = gen + 1 /\ pc' = pc
    /\ UNCHANGED <<start, args, out, collected>>

Render ==
    /\ pc = "ready"
    /\ out' = fmt(grid)
    /\ prev' = grid
    /\ last' = "fmt"
    /\ UNCHANGED <<grid, pc, start, args, gen, collected>>

Next == Dead \/ Random \/ Create \/ Advance \/ Render

Spec == Init /\ [][Next]_vars

-----------------------------------------------------------------------------
(* Board::advance, one cell of the map at a time.  The iterator chain is   *)
(* lazy: collect_vec pulls the positions in row-major order, each pull     *)
(* runs the closure on &self, and self.grid is assigned after the last.    *)

collect_cell_in_place(g, buf) ==
    LET k == Len(buf)
        cell == new_cell(g, RowOf(g, k), ColOf(g, k))
    IN  [grid |-> [g EXCEPT !.data[k + 1] = cell], buf |-> Append(buf, cell)]

\* One pull of collect_vec: the board and the vector after the closure ran
\* for position Len(buf).
collect_cell(g, buf) ==
    LET k == Len(buf)
        cell == new_cell(g, RowOf(g, k), ColOf(g, k))
    IN  [grid |-> g, buf |-> Append(buf, cell)]

\* advance is entered: new_state is about to be collected.
AdvanceBegin ==
    /\ pc = "ready"
    /\ gen < MaxGen
    /\ pc' = "advancing"
    /\ prev' = grid
    /\ last' = "advance"
    /\ collected' = <<>>
    /\ UNCHANGED <<grid, start, args, gen, out>>

\* The closure runs for the next position, or panics in its count.
AdvanceCell ==
    /\ pc = "advancing"
    /\ Len(collected) < grid.rows * grid.cols
    /\ IF count_panics(grid, RowOf(grid, Len(collected)), ColOf(grid, Len(collected)))
       THEN pc' = "panicked" /\ UNCHANGED <<grid, collected>>
       ELSE /\ grid' = collect_cell(grid, collected).grid
            /\ collected' = collect_cell(grid, collected).buf
            /\ pc' = pc
    /\ UNCHANGED <<last, prev, start, args, gen, out>>

\* self.grid = Grid::from_vec(new_state, cols)
AdvanceEnd ==
    /\ pc = "advancing"
    /\ Len(collected) = grid.rows * grid.cols
    /\ grid' = GridFromVec(collected, grid.cols)
    /\ gen' = gen + 1
    /\ pc' = "ready"
    /\ collected' = <<>>
    /\ UNCHANGED <<last, prev, start, args, out>>

NextStep ==
    Dead \/ Random \/ Create \/ AdvanceBegin \/ AdvanceCell \/ AdvanceEnd \/ Render

SpecStep == Init /\ [][NextStep]_vars

-----------------------------------------------------------------------------
(* Vocabulary of the properties, independent of the operators above.       *)

\* The cell (r, c) of board g is alive.
Alive(g, r, c) == g.data[(r * g.cols) + c + 1]

Rows(g) == 0..(g.rows - 1)
Cols(g) == 0..(g.cols - 1)

Abs(x) == IF x < 0 THEN -x ELSE x

\* The in-bounds positions of the 8-neighbourhood of (row, col).
Around(g, row, col) ==
    {p \in Rows(g) \X Cols(g) :
        /\ p # <<row, col>>
        /\ Abs(p[1] - row) <= 1
        /\ Abs(p[2] - col) <= 1}

\* Reference count: live cells of the 8-neighbourhood, off-grid cells dead.
LiveNeighbours(g, row, col) ==
    Cardinality({p \in Around(g, row, col) : Alive(g, p[1], p[2])})

\* The rows x cols board whose live cells are exactly the positions in live.
BoardOf(rows, cols, live) ==
    [data |-> [k \in 1..(rows * cols) |->
                  <<(k - 1) \div cols, (k - 1) % cols>> \in live],
     rows |-> rows, cols |-> cols]

AllDeadBoard(g) == \A k \in 1..Len(g.data) : g.data[k] = FALSE
AllAliveBoard(g) == \A k \in 1..Len(g.data) : g.data[k] = TRUE

AtLeast2x2(g) == g.rows >= 2 /\ g.cols >= 2

\* The last operation was an advance that ran to completion.
Advanced == last = "advance" /\ pc = "ready"

-----------------------------------------------------------------------------
\* C1: on a board with rows >= 2 and cols >= 2, one advance completes and
\* sets every cell from n, its number of live neighbours in the pre-advance
\* grid: dead for n <= 1, its old state for n = 2, alive for n = 3, dead
\* for n >= 4.
C1_RuleTable ==
    (last = "advance" /\ AtLeast2x2(prev)) =>
        /\ pc = "ready"
        /\ \A row \in Rows(prev), col \in Cols(prev) :
              LET n == LiveNeighbours(prev, row, col) IN
              Alive(grid, row, col) =
                  (IF n <= 1 THEN FALSE
                   ELSE IF n = 2 THEN Alive(prev, row, col)
                   ELSE IF n = 3 THEN TRUE
                   ELSE FALSE)

\* An advance gave birth to a dead cell with 3 live neighbours and killed a
\* live cell with 4 or more.
C1_Witness ==
    /\ Advanced /\ AtLeast2x2(prev)
    /\ \E row \in Rows(prev), col \in Cols(prev) :
          /\ ~Alive(prev, row, col)
          /\ LiveNeighbours(prev, row, col) = 3
          /\ Alive(grid, row, col)
    /\ \E row \in Rows(prev), col \in Cols(prev) :
          /\ Alive(prev, row, col)
          /\ LiveNeighbours(prev, row, col) >= 4
          /\ ~Alive(grid, row, col)

\* C2: advancing an all-dead board of any dimensions rows >= 1, cols >= 1
\* completes and leaves the board equal to the board before it.
C2_AllDeadUnchanged ==
    (last = "advance" /\ AllDeadBoard(prev)) =>
        (pc = "ready" /\ grid = prev)

\* C3: for every board with rows >= 1 and cols >= 1, advance completes with
\* the next generation and never ends in a failure (panic) state.
C3_AdvanceTotal ==
    (last = "advance" /\ prev.rows >= 1 /\ prev.cols >= 1) =>
        (pc # "panicked" /\ gen >= 1)

\* C4: in every state after construction, whatever the number of advances,
\* the row and column counts are those of the construction and the cell
\* array has exactly rows x cols elements.
C4_Dimensions ==
    pc # "new" =>
        /\ grid.rows = args[1]
        /\ grid.cols = args[2]
        /\ grid.rows = start.rows
        /\ grid.cols = start.cols
        /\ Len(grid.data) = grid.rows * grid.cols

\* A board that is not square has been advanced twice.
C4_Witness ==
    /\ Advanced /\ gen >= 2
    /\ args[1] # args[2]
    /\ grid.rows = args[1]

BlockBoard == BoardOf(4, 4, {<<1, 1>>, <<1, 2>>, <<2, 1>>, <<2, 2>>})
BeehiveBoard ==
    BoardOf(6, 6, {<<1, 2>>, <<1, 3>>, <<2, 1>>, <<2, 4>>, <<3, 2>>, <<3, 3>>})
BoatBoard ==
    BoardOf(5, 5, {<<1, 2>>, <<2, 1>>, <<2, 3>>, <<3, 1>>, <<3, 2>>})

\* C5: the block (4x4), the beehive (6x6) and the boat (5x5) equal
\* themselves after one advance.
C5_StillLifes ==
    (Advanced /\ prev \in {BlockBoard, BeehiveBoard, BoatBoard}) =>
        grid = prev

\* The beehive has been advanced once.
C5_Witness ==
    Advanced /\ gen = 1 /\ start = BeehiveBoard /\ prev = BeehiveBoard

BlinkerVertical == BoardOf(5, 5, {<<1, 2>>, <<2, 2>>, <<3, 2>>})
BlinkerHorizontal == BoardOf(5, 5, {<<2, 1>>, <<2, 2>>, <<2, 3>>})
ToadBoard ==
    BoardOf(6, 6, {<<2, 2>>, <<2, 3>>, <<2, 4>>, <<3, 1>>, <<3, 2>>, <<3, 3>>})
ToadNext ==
    BoardOf(6, 6, {<<1, 3>>, <<2, 1>>, <<2, 4>>, <<3, 1>>, <<3, 4>>, <<4, 2>>})

\* C6: the blinker is horizontal after one advance and vertical again after
\* two; the toad is in its second phase, which differs from the first, after
\* one advance and back in its original configuration after two.
C6_Oscillators ==
    /\ (start = BlinkerVertical /\ gen = 1) => grid = BlinkerHorizontal
    /\ (start = BlinkerVertical /\ gen = 2) => grid = BlinkerVertical
    /\ (start = ToadBoard /\ gen = 1) => (grid = ToadNext /\ grid # start)
    /\ (start = ToadBoard /\ gen = 2) => grid = ToadBoard

\* The toad has been advanced twice, through its second phase.
C6_Witness ==
    Advanced /\ start = ToadBoard /\ gen = 2 /\ prev = ToadNext

\* The count the edge-clamping property gives for (row, col) of g.
ClampedCount(g, row, col) ==
    LET onRowEdge == row \in {0, g.rows - 1}
        onColEdge == col \in {0, g.cols - 1}
    IN  IF onRowEdge /\ onColEdge THEN 3
        ELSE IF onRowEdge \/ onColEdge THEN 5
        ELSE 8

\* count_live_neighbors returns the clamped count at every cell of g and
\* reads no cell further than one step away (none from the opposite edge).
EdgeClamped(g) ==
    \A row \in Rows(g), col \in Cols(g) :
        /\ ~count_panics(g, row, col)
        /\ count_live_neighbors(g, row, col) = ClampedCount(g, row, col)
        /\ neighbor_indices(g, row, col) \subseteq Around(g, row, col)

IsTextOf(text, g) ==
    /\ Len(text) = g.rows * (g.cols + 1)
    /\ \A r \in Rows(g) :
          /\ \A c \in Cols(g) :
                text[(r * (g.cols + 1)) + c + 1] =
                    (IF Alive(g, r, c) THEN "1" ELSE "0")
          /\ text[(r * (g.cols + 1)) + g.cols + 1] = "\n"

\* C8: rendering a board emits rows lines in row order, line r being the
\* cols digits of row r ('1' alive, '0' dead) and one newline, and leaves
\* the cells and dimensions of the board as they were.
C8_Render ==
    last = "fmt" => (IsTextOf(out, grid) /\ grid = prev)

\* A board with several rows, more columns than rows and cells of both
\* states has been rendered.
C8_Witness ==
    /\ last = "fmt"
    /\ grid.rows >= 2 /\ grid.cols > grid.rows
    /\ ~AllDeadBoard(grid) /\ ~AllAliveBoard(grid)
    /\ Len(out) = grid.rows * (grid.cols + 1)

\* C9: dead(rows, cols) returns a board with the given row and column
\* counts in which every cell is dead.
C9_Dead ==
    last = "dead" =>
        /\ grid.rows = args[1]
        /\ grid.cols = args[2]
        /\ Len(grid.data) = args[1] * args[2]
        /\ AllDeadBoard(grid)

\* dead has built a board that is not square.
C9_Witness ==
    last = "dead" /\ args[1] # args[2] /\ Len(grid.data) = args[1] * args[2]

\* C10: on a board with rows >= 2 and cols >= 2, count_live_neighbors
\* returns at every position the reference count of the 8-neighbourhood
\* with off-grid cells dead, the cell itself not counted.
C10_ReferenceCount ==
    (pc = "ready" /\ AtLeast2x2(grid)) =>
        \A row \in Rows(grid), col \in Cols(grid) :
            /\ ~count_panics(grid, row, col)
            /\ count_live_neighbors(grid, row, col) = LiveNeighbours(grid, row, col)

\* A live cell with live neighbours has been counted: it is left out of
\* its own count.
C10_Witness ==
    /\ pc = "ready" /\ AtLeast2x2(grid)
    /\ \E row \in Rows(grid), col \in Cols(grid) :
          /\ Alive(grid, row, col)
          /\ count_live_neighbors(grid, row, col) \in 1..7

\* C11: advance reads a cell out of range exactly when the board has one
\* row or one column.  With a single row (column) the window of index 0 is
\* {0, 1} and holds the index 1 the board does not have; with rows >= 2 and
\* cols >= 2 every index of every window lies within the board.
C11_OutOfRangeOnlyDegenerate ==
    /\ last = "advance" =>
          (pc = "panicked" <=> (prev.rows = 1 \/ prev.cols = 1))
    /\ pc # "new" =>
          /\ grid.rows = 1 => (valid_rows(grid, 0) = {0, 1} /\ 1 \notin Rows(grid))
          /\ grid.cols = 1 => (valid_cols(grid, 0) = {0, 1} /\ 1 \notin Cols(grid))
          /\ AtLeast2x2(grid) =>
                \A row \in Rows(grid), col \in Cols(grid) :
                    /\ valid_rows(grid, row) \subseteq Rows(grid)
                    /\ valid_cols(grid, col) \subseteq Cols(grid)

\* The advance of a board with one row and several columns has panicked.
C11_Witness ==
    /\ last = "advance" /\ pc = "panicked"
    /\ prev.rows = 1 /\ prev.cols >= 2
    /\ count_panics(prev, 0, 0)

\* The next state of cell k (row-major, from 0) of board g under the
\* synchronous update: a function of g alone.
SyncCell(g, k) ==
    LET row == k \div g.cols
        col == k % g.cols
        n == LiveNeighbours(g, row, col)
    IN  IF n <= 1 THEN FALSE
        ELSE IF n = 2 THEN Alive(g, row, col)
        ELSE IF n = 3 THEN TRUE
        ELSE FALSE

SyncUpdate(g) ==
    [data |-> [i \in 1..(g.rows * g.cols) |-> SyncCell(g, i - 1)],
     rows |-> g.rows, cols |-> g.cols]

\* While advance collects, the board is the pre-advance board and every
\* collected state is the synchronous one; a completed advance leaves the
\* synchronous update of the pre-advance board.
SnapshotKept ==
    /\ pc = "advancing" =>
          /\ grid = prev
          /\ Len(collected) <= grid.rows * grid.cols
          /\ \A i \in 1..Len(collected) : collected[i] = SyncCell(prev, i - 1)
    /\ Advanced => grid = SyncUpdate(prev)

\* The cells of a constructed board change only in the step that follows
\* the last collected cell and ends the advance.
ReplacedAtEnd ==
    (pc # "new" /\ grid' # grid) =>
        /\ pc = "advancing"
        /\ Len(collected) = grid.rows * grid.cols
        /\ pc' = "ready"
        /\ grid'.data = collected

\* C12: advance computes every new state from the same snapshot: while the
\* new states are collected in row-major order the cell array stays the
\* pre-advance array, no count reads a freshly computed state, and the
\* cells are replaced once, after the last cell was computed; the result is
\* the synchronous update, whatever the order of the visits.
C12_Snapshot == [](SnapshotKept) /\ [][ReplacedAtEnd]_vars

\* Part of the new generation has been collected and differs from the cells
\* it will replace, with cells still to be computed.
C12_Witness ==
    /\ pc = "advancing" /\ AtLeast2x2(grid)
    /\ Len(collected) \in 1..((grid.rows * grid.cols) - 1)
    /\ \E i \in 1..Len(collected) : collected[i] # prev.data[i]

\* The symmetries of the rectangle, on boards.
Transpose(g) ==
    [data |-> [k \in 1..(g.rows * g.cols) |->
                  Alive(g, (k - 1) % g.rows, (k - 1) \div g.rows)],
     rows |-> g.cols, cols |-> g.rows]

FlipRows(g) ==
    [data |-> [k \in 1..(g.rows * g.cols) |->
                  Alive(g, (g.rows - 1) - ((k - 1) \div g.cols), (k - 1) % g.cols)],
     rows |-> g.rows, cols |-> g.cols]

FlipCols(g) ==
    [data |-> [k \in 1..(g.rows * g.cols) |->
                  Alive(g, (k - 1) \div g.cols, (g.cols - 1) - ((k - 1) % g.cols))],
     rows |-> g.rows, cols |-> g.cols]

\* The windows of g mirror at both ends of each axis, and the column window
\* is the row window of the transposed board.
WindowsSymmetric(g) ==
    /\ \A row \in Rows(g) :
          valid_rows(g, (g.rows - 1) - row) =
              {(g.rows - 1) - i : i \in valid_rows(g, row)}
    /\ \A col \in Cols(g) :
          /\ valid_cols(g, (g.cols - 1) - col) =
                {(g.cols - 1) - i : i \in valid_cols(g, col)}
          /\ valid_cols(g, col) = valid_rows(Transpose(g), col)

\* C13: on every board with rows >= 2 and cols >= 2, advance commutes with
\* the transposition, the flip of the rows and the flip of the columns, and
\* the row and column windows follow one rule that treats the first and the
\* last index of an axis as mirror images.
C13_Symmetries ==
    (pc = "ready" /\ AtLeast2x2(grid)) =>
        /\ advance(Transpose(grid)) = Transpose(advance(grid))
        /\ advance(FlipRows(grid)) = FlipRows(advance(grid))
        /\ advance(FlipCols(grid)) = FlipCols(advance(grid))
        /\ WindowsSymmetric(grid)

\* A board that is not square and has none of the symmetries was advanced
\* to a different board, which is the transpose of the advanced transpose.
C13_Witness ==
    /\ Advanced /\ AtLeast2x2(prev)
    /\ prev.rows # prev.cols
    /\ FlipRows(prev) # prev /\ FlipCols(prev) # prev
    /\ grid # prev
    /\ Transpose(grid) = advance(Transpose(prev))

\* The number of live cells of board g.
Population(g) == Cardinality({k \in 1..Len(g.data) : g.data[k]})

Is2x2(g) == g.rows = 2 /\ g.cols = 2

\* C14: on a 2x2 board the neighbourhood of a cell is the other three
\* cells; one advance gives the all-alive board from 3 or 4 live cells and
\* the all-dead board from 0, 1 or 2; both are fixed points, so a 2x2 board
\* no longer changes after its first advance.
C14_TwoByTwo ==
    /\ (pc = "ready" /\ Is2x2(grid)) =>
          \A row \in Rows(grid), col \in Cols(grid) :
              neighbor_indices(grid, row, col) =
                  (Rows(grid) \X Cols(grid)) \ {<<row, col>>}
    /\ (Advanced /\ Is2x2(prev)) =>
          /\ Population(prev) >= 3 => grid = BoardOf(2, 2, {0, 1} \X {0, 1})
          /\ Population(prev) <= 2 => grid = BoardOf(2, 2, {})
          /\ advance(grid) = grid
          /\ gen >= 2 => grid = prev

\* A 2x2 board of 3 live cells became all alive and stayed so in a second
\* advance.
C14_Witness ==
    /\ Advanced /\ Is2x2(start)
    /\ Population(start) = 3
    /\ gen = 2
    /\ AllAliveBoard(prev) /\ AllAliveBoard(grid)

====
